---------------------------- MODULE Spec2Model ----------------------------
(***************************************************************************)
(* A model of agile-pasta's transformation pipeline: the Database of PSV   *)
(* tables, QueryEngine::select, and TransformationEngine (rule loading,    *)
(* source selection, GLOBAL filters, FIELD expressions).                   *)
(*                                                                         *)
(* Text is modelled by TLA+ strings handled character by character         *)
(* (Len, SubSeq, \o).  Positions are 1-based; a C++ position p is the      *)
(* model position p+1 and std::string::npos is 0.                          *)
(***************************************************************************)
EXTENDS Integers, Sequences, FiniteSets, TLC

VARIABLES tables_,          \* Database::tables_ : table name -> PsvTable
          rules_,           \* TransformationEngine::rules_
          output_headers_,  \* TransformationEngine::output_headers_
          ret,              \* what the last engine/database operation returned
          call              \* a call of one of the pure evaluators, with its result

vars == <<tables_, rules_, output_headers_, ret, call>>

(***************************************************************************)
(* Characters.                                                             *)
(***************************************************************************)
Ch(s, i) == SubSeq(s, i, i)

\* The characters of the model in ASCII order (what std::string compares by).
AsciiOrder ==
  "\t\n\r !\"#$%&'()*+,-./0123456789:;<=>?@ABCDEFGHIJKLMNOPQRSTUVWXYZ[]^_abcdefghijklmnopqrstuvwxyz{|}"

AnyChar == {Ch(AsciiOrder, i) : i \in 1..Len(AsciiOrder)}

Ord(c) == CHOOSE i \in 1..Len(AsciiOrder) : Ch(AsciiOrder, i) = c

LowerCase == "abcdefghijklmnopqrstuvwxyz"
UpperCase == "ABCDEFGHIJKLMNOPQRSTUVWXYZ"
DigitChars == {"0", "1", "2", "3", "4", "5", "6", "7", "8", "9"}
LowerChars == {Ch(LowerCase, i) : i \in 1..26}
UpperChars == {Ch(UpperCase, i) : i \in 1..26}

isalpha(c) == c \in LowerChars \cup UpperChars
isalnum(c) == isalpha(c) \/ c \in DigitChars
\* std::isspace in the C locale (\v is not a character of the model)
SpaceChars == {" ", "\t", "\n", "\r", "\f"}
isspace(c) == c \in SpaceChars
\* the characters the trimming code erases: find_first_not_of(" \t")
BlankChars == {" ", "\t"}
\* regex \w, regex \s, regex .
WordChars == LowerChars \cup UpperChars \cup DigitChars \cup {"_"}
RegexSpace == SpaceChars
RegexDot == AnyChar \ {"\n", "\r"}

toupper(c) == IF c \in LowerChars
              THEN Ch(UpperCase, CHOOSE i \in 1..26 : Ch(LowerCase, i) = c)
              ELSE c
tolower(c) == IF c \in UpperChars
              THEN Ch(LowerCase, CHOOSE i \in 1..26 : Ch(UpperCase, i) = c)
              ELSE c

(***************************************************************************)
(* std::string helpers.                                                    *)
(***************************************************************************)
\* first position >= i whose character is outside cls (Len(s)+1 if none)
RECURSIVE SkipWhile(_, _, _)
SkipWhile(s, i, cls) ==
  IF i > Len(s) THEN Len(s) + 1
  ELSE IF Ch(s, i) \in cls THEN SkipWhile(s, i + 1, cls) ELSE i

\* last position <= i whose character is outside cls (0 if none)
RECURSIVE SkipBack(_, _, _)
SkipBack(s, i, cls) ==
  IF i < 1 THEN 0
  ELSE IF Ch(s, i) \in cls THEN SkipBack(s, i - 1, cls) ELSE i

\* s.substr(from-1), and s.substr(0, to)
From(s, i) == IF i > Len(s) THEN "" ELSE SubSeq(s, i, Len(s))
UpTo(s, i) == IF i < 1 THEN "" ELSE SubSeq(s, 1, i)

\* s.find(h, pos-1) + 1, 0 for npos
RECURSIVE Find(_, _, _)
Find(s, h, pos) ==
  IF pos + Len(h) - 1 > Len(s) THEN 0
  ELSE IF SubSeq(s, pos, pos + Len(h) - 1) = h THEN pos
  ELSE Find(s, h, pos + 1)

StartsWithAt(s, i, t) ==
  /\ i >= 1
  /\ i + Len(t) - 1 <= Len(s)
  /\ SubSeq(s, i, i + Len(t) - 1) = t

\* x.erase(0, x.find_first_not_of(" \t")); x.erase(x.find_last_not_of(" \t") + 1);
Trim(s) ==
  LET a == SkipWhile(s, 1, BlankChars)
      b == SkipBack(s, Len(s), BlankChars)
  IN IF a > b THEN "" ELSE SubSeq(s, a, b)

\* std::find(v.begin(), v.end(), x): the first index of x in v, 0 for end()
IndexOf(v, x) ==
  IF \E i \in 1..Len(v) : v[i] = x
  THEN CHOOSE i \in 1..Len(v) : v[i] = x /\ \A j \in 1..(i - 1) : v[j] # x
  ELSE 0

\* std::string operator<
RECURSIVE StrLess(_, _)
StrLess(a, b) ==
  IF Len(b) = 0 THEN FALSE
  ELSE IF Len(a) = 0 THEN TRUE
  ELSE IF Ch(a, 1) = Ch(b, 1) THEN StrLess(From(a, 2), From(b, 2))
  ELSE Ord(Ch(a, 1)) < Ord(Ch(b, 1))

RECURSIVE Pow10(_)
Pow10(k) == IF k = 0 THEN 1 ELSE 10 * Pow10(k - 1)

DigitVal(c) == CHOOSE d \in 0..9 : Ch("0123456789", d + 1) = c

RECURSIVE DigitsVal(_)
DigitsVal(s) ==
  IF Len(s) = 0 THEN 0
  ELSE 10 * DigitsVal(UpTo(s, Len(s) - 1)) + DigitVal(Ch(s, Len(s)))

(***************************************************************************)
(* std::to_string(int).                                                    *)
(***************************************************************************)
RECURSIVE to_string(_)
to_string(n) ==
  IF n < 10 THEN Ch("0123456789", n + 1)
  ELSE to_string(n \div 10) \o Ch("0123456789", (n % 10) + 1)

(***************************************************************************)
(* std::stod: skips leading white space, takes an optional sign and the    *)
(* longest decimal prefix (digits, optionally a point and digits) and      *)
(* ignores what follows; it throws when no digit is found.  The value is   *)
(* the exact rational num/den.  Not modelled (no value of the model has    *)
(* them): exponents, hexadecimal floats, inf/nan, out-of-range values.     *)
(***************************************************************************)
stod(s) ==
  LET a    == SkipWhile(s, 1, SpaceChars)
      neg  == a <= Len(s) /\ Ch(s, a) = "-"
      b    == IF a <= Len(s) /\ Ch(s, a) \in {"+", "-"} THEN a + 1 ELSE a
      c    == SkipWhile(s, b, DigitChars)
      ip   == IF c > b THEN SubSeq(s, b, c - 1) ELSE ""
      dot  == c <= Len(s) /\ Ch(s, c) = "."
      d    == IF dot THEN SkipWhile(s, c + 1, DigitChars) ELSE c
      fp   == IF dot /\ d > c + 1 THEN SubSeq(s, c + 1, d - 1) ELSE ""
      mag  == DigitsVal(ip) * Pow10(Len(fp)) + DigitsVal(fp)
  IN [ok  |-> Len(ip) + Len(fp) > 0,
      num |-> IF neg THEN 0 - mag ELSE mag,
      den |-> Pow10(Len(fp))]

NumLess(x, y) == x.num * y.den < y.num * x.den
NumEq(x, y)   == x.num * y.den = y.num * x.den


(***************************************************************************)
(* TransformationEngine::evaluate_simple_condition.                        *)
(***************************************************************************)
\* the alternation of condition_regex, in its order
CondOps == <<"=", "!=", ">", "<", ">=", "<=">>

\* std::regex_match(condition, (\w+)\s*(=|!=|>|<|>=|<=)\s*'([^']*)'):
\* the field is the leading \w run; the operator is the first alternative
\* after which \s*'...' reaches the end of the text with no quote inside.
MatchWithOp(s, opStart, op) ==
  LET q    == SkipWhile(s, opStart + Len(op), RegexSpace)
      last == SkipWhile(s, q + 1, AnyChar \ {"'"})
  IN /\ StartsWithAt(s, opStart, op)
     /\ q <= Len(s)
     /\ Ch(s, q) = "'"
     /\ last = Len(s)

condition_regex(s) ==
  LET e1 == SkipWhile(s, 1, WordChars)
      e2 == SkipWhile(s, e1, RegexSpace)
      ks == {k \in 1..Len(CondOps) : MatchWithOp(s, e2, CondOps[k])}
  IN IF e1 = 1 \/ ks = {}
     THEN [matched |-> FALSE, field_name |-> "", operator_str |-> "", value |-> ""]
     ELSE LET k  == CHOOSE k \in ks : \A j \in ks : k <= j
              op == CondOps[k]
              q  == SkipWhile(s, e2 + Len(op), RegexSpace)
          IN [matched      |-> TRUE,
              field_name   |-> SubSeq(s, 1, e1 - 1),
              operator_str |-> op,
              value        |-> IF q + 1 > Len(s) - 1 THEN ""
                               ELSE SubSeq(s, q + 1, Len(s) - 1)]

NumericCompare(op, a, b) ==
  CASE op = "="  -> NumEq(a, b)
    [] op = "!=" -> ~NumEq(a, b)
    [] op = ">"  -> NumLess(b, a)
    [] op = "<"  -> NumLess(a, b)
    [] op = ">=" -> ~NumLess(a, b)
    [] op = "<=" -> ~NumLess(b, a)
    [] OTHER     -> FALSE

StringCompare(op, a, b) ==
  CASE op = "="  -> a = b
    [] op = "!=" -> a # b
    [] op = ">"  -> StrLess(b, a)
    [] op = "<"  -> StrLess(a, b)
    [] op = ">=" -> ~StrLess(a, b)
    [] op = "<=" -> ~StrLess(b, a)
    [] OTHER     -> FALSE

\* a variant in which a field that is not a header passes the filter
evaluate_simple_condition_failopen(condition, row, headers) ==
  LET m == condition_regex(condition)
  IN IF ~m.matched THEN FALSE
     ELSE LET field_index == IndexOf(headers, m.field_name)
          IN IF field_index = 0 THEN TRUE
             ELSE IF field_index > Len(row) THEN TRUE
             ELSE LET field_num == stod(row[field_index])
                      value_num == stod(m.value)
                  IN IF field_num.ok /\ value_num.ok
                     THEN NumericCompare(m.operator_str, field_num, value_num)
                     ELSE StringCompare(m.operator_str, row[field_index], m.value)

evaluate_simple_condition(condition, row, headers) ==
  LET m == condition_regex(condition)
  IN IF ~m.matched THEN FALSE
     ELSE LET field_index == IndexOf(headers, m.field_name)
          IN IF field_index = 0 THEN FALSE
             ELSE IF field_index > Len(row) THEN FALSE
             ELSE LET field_value == row[field_index]
                      field_num   == stod(field_value)
                      value_num   == stod(m.value)
                      is_numeric  == field_num.ok /\ value_num.ok
                  IN IF is_numeric
                     THEN NumericCompare(m.operator_str, field_num, value_num)
                     ELSE StringCompare(m.operator_str, field_value, m.value)

(***************************************************************************)
(* TransformationEngine::evaluate_rule_condition.                          *)
(***************************************************************************)
Outcomes == {"ACCEPT", "REJECT"}

\* std::regex_match(condition, (.+?)\s*\?\s*(ACCEPT|REJECT)\s*:\s*(ACCEPT|REJECT)),
\* read from the end of the text: the two outcome tokens, the colon and the
\* question mark are fixed by the anchoring; the lazy first group is what is
\* left with its trailing white space given to \s*, but at least one character.
global_ternary_regex(s) ==
  LET n  == Len(s)
      y0 == n - 5                               \* start of the second outcome
      c  == SkipBack(s, y0 - 1, RegexSpace)     \* the colon
      x1 == SkipBack(s, c - 1, RegexSpace)      \* end of the first outcome
      x0 == x1 - 5
      q  == SkipBack(s, x0 - 1, RegexSpace)     \* the question mark
      g  == SkipBack(s, q - 1, RegexSpace)      \* end of the lazy group
      g1 == IF g = 0 THEN 1 ELSE g
      ok == /\ y0 >= 1 /\ SubSeq(s, y0, n) \in Outcomes
            /\ c >= 1 /\ Ch(s, c) = ":"
            /\ x0 >= 1 /\ SubSeq(s, x0, x1) \in Outcomes
            /\ q >= 2 /\ Ch(s, q) = "?"
            /\ \A i \in 1..g1 : Ch(s, i) \in RegexDot
  IN IF ok
     THEN [matched |-> TRUE, condition_part |-> SubSeq(s, 1, g1),
           true_value |-> SubSeq(s, x0, x1), false_value |-> SubSeq(s, y0, n)]
     ELSE [matched |-> FALSE, condition_part |-> "", true_value |-> "",
           false_value |-> ""]

\* a variant that ignores the outcome tokens: the first one is taken to keep
evaluate_rule_condition_positional(condition, row, headers) ==
  LET m == global_ternary_regex(condition)
  IN IF m.matched
     THEN evaluate_simple_condition(Trim(m.condition_part), row, headers)
     ELSE evaluate_simple_condition(condition, row, headers)

evaluate_rule_condition(condition, row, headers) ==
  LET m == global_ternary_regex(condition)
  IN IF m.matched
     THEN LET condition_result ==
                evaluate_simple_condition(Trim(m.condition_part), row, headers)
              result_value == IF condition_result THEN m.true_value ELSE m.false_value
          IN result_value = "ACCEPT"
     ELSE evaluate_simple_condition(condition, row, headers)


(***************************************************************************)
(* TransformationEngine::apply_rule.                                       *)
(***************************************************************************)
\* std::regex_match(expression, (.+?)\s*\?\s*(.+?)\s*:\s*(.+)).  The lazy
\* first group ends before the first question mark that is not the first
\* character; \s* after it is greedy (longest first) and the second group
\* lazy (shortest first) such that \s*: and a non-empty rest follow; the
\* last group takes the rest after the white space following the colon.
field_ternary_regex(s) ==
  LET n    == Len(s)
      q    == Find(s, "?", 2)
      g1   == SkipBack(s, q - 1, RegexSpace)
      kmax == SkipWhile(s, q + 1, RegexSpace) - (q + 1)
      \* the colon that closes a second group of length len starting at g
      Colon(g, len) == SkipWhile(s, g + len, RegexSpace)
      Lens(k) == {len \in 1..n : LET c == Colon(q + 1 + k, len)
                                 IN /\ q + k + len <= n
                                    /\ c <= n - 1
                                    /\ Ch(s, c) = ":"}
      ks   == {k \in 0..kmax : Lens(k) # {}}
  IN IF q = 0 \/ ks = {} \/ \E i \in 1..n : Ch(s, i) \notin RegexDot
     THEN [matched |-> FALSE, condition_part |-> "", true_value |-> "",
           false_value |-> ""]
     ELSE LET k   == CHOOSE k \in ks : \A j \in ks : j <= k
              len == CHOOSE l \in Lens(k) : \A j \in Lens(k) : l <= j
              g   == q + 1 + k
              c   == Colon(g, len)
              r0  == SkipWhile(s, c + 1, RegexSpace)
              r   == IF r0 > n THEN n ELSE r0
          IN [matched        |-> TRUE,
              condition_part |-> SubSeq(s, 1, IF g1 = 0 THEN 1 ELSE g1),
              true_value     |-> SubSeq(s, g, g + len - 1),
              false_value    |-> SubSeq(s, r, n)]

\* the quotes are removed when the value starts and ends with the same quote
\* (an empty chosen value makes front()/back() undefined; no expression of
\* the model's inputs has an empty branch)
RemoveQuotes(chosen_value) ==
  LET n == Len(chosen_value)
  IN IF n >= 1 /\ \/ (Ch(chosen_value, 1) = "\"" /\ Ch(chosen_value, n) = "\"")
                  \/ (Ch(chosen_value, 1) = "'" /\ Ch(chosen_value, n) = "'")
     THEN (IF n <= 2 THEN "" ELSE SubSeq(chosen_value, 2, n - 1))
     ELSE chosen_value

Placeholder(k) == "__STRING_LITERAL_" \o to_string(k) \o "__"

\* while (regex_search(result_expression, match, <q>([^<q>]*)<q>)) { replace
\* the first match by the next placeholder }.  st = [expr, literals], the
\* literals being <<placeholder, content>> pairs in order of extraction.
RECURSIVE ExtractLiterals(_, _)
ExtractLiterals(st, quote) ==
  LET e == st.expr
      i == Find(e, quote, 1)
      j == IF i = 0 THEN 0 ELSE Find(e, quote, i + 1)
  IN IF j = 0 THEN st
     ELSE LET ph == Placeholder(Len(st.literals))
          IN ExtractLiterals(
               [expr     |-> UpTo(e, i - 1) \o ph \o From(e, j + 1),
                literals |-> Append(st.literals,
                                    <<ph, IF j = i + 1 THEN "" ELSE SubSeq(e, i + 1, j - 1)>>)],
               quote)

\* a variant of the whole-word test that takes an underscore for a boundary
IsWholeWordBetweenUnderscores(text, pos, header) ==
  LET end == pos + Len(header)
  IN /\ (pos = 1 \/ ~isalnum(Ch(text, pos - 1)))
     /\ (end = Len(text) + 1 \/ ~isalnum(Ch(text, end)))

\* the whole-word test of the scanning loops
IsWholeWord(text, pos, header) ==
  LET end == pos + Len(header)
  IN /\ (pos = 1 \/ (~isalnum(Ch(text, pos - 1)) /\ Ch(text, pos - 1) # "_"))
     /\ (end = Len(text) + 1 \/ (~isalnum(Ch(text, end)) /\ Ch(text, end) # "_"))

IsInPlaceholder(text, pos, literals) ==
  \E k \in 1..Len(literals) :
     LET placeholder_pos == Find(text, literals[k][1], 1)
     IN /\ placeholder_pos # 0
        /\ pos >= placeholder_pos
        /\ pos < placeholder_pos + Len(literals[k][1])

\* the while loop replacing one header by its value, from position pos on
RECURSIVE ReplaceHeader(_, _, _, _, _)
ReplaceHeader(text, header, value, literals, pos) ==
  LET p == Find(text, header, pos)
  IN IF p = 0 THEN text
     ELSE IF IsWholeWord(text, p, header) /\ ~IsInPlaceholder(text, p, literals)
     THEN ReplaceHeader(UpTo(text, p - 1) \o value \o From(text, p + Len(header)),
                        header, value, literals, p + Len(value))
     ELSE ReplaceHeader(text, header, value, literals, p + Len(header))

\* for (i = 0; i < input_headers.size() && i < input_row.size(); ++i)
RECURSIVE ReplaceFields(_, _, _, _, _)
ReplaceFields(text, input_headers, input_row, literals, i) ==
  IF i > Len(input_headers) \/ i > Len(input_row) THEN text
  ELSE ReplaceFields(ReplaceHeader(text, input_headers[i], input_row[i], literals, 1),
                     input_headers, input_row, literals, i + 1)

\* each placeholder's first occurrence is replaced by the literal's content
RECURSIVE RestoreLiterals(_, _, _)
RestoreLiterals(text, literals, k) ==
  IF k > Len(literals) THEN text
  ELSE LET pos == Find(text, literals[k][1], 1)
       IN RestoreLiterals(
            IF pos = 0 THEN text
            ELSE UpTo(text, pos - 1) \o literals[k][2]
                   \o From(text, pos + Len(literals[k][1])),
            literals, k + 1)

\* while (std::getline(ss, part, '+')): a part that is only white space adds
\* one space, any other part is trimmed and appended
RECURSIVE Concatenate(_)
Concatenate(text) ==
  IF Len(text) = 0 THEN ""
  ELSE LET plus == Find(text, "+", 1)
           part == IF plus = 0 THEN text ELSE UpTo(text, plus - 1)
           rest == IF plus = 0 THEN "" ELSE From(text, plus + 1)
           is_whitespace_only ==
             Len(part) > 0 /\ \A i \in 1..Len(part) : isspace(Ch(part, i))
       IN (IF is_whitespace_only THEN " " ELSE Trim(part)) \o Concatenate(rest)

\* ss >> token: the white-space separated token starting at or after pos,
\* as [tok, next]
NextToken(text, pos) ==
  LET a == SkipWhile(text, pos, SpaceChars)
      b == SkipWhile(text, a, AnyChar \ SpaceChars)
  IN [tok |-> IF a > Len(text) THEN "" ELSE SubSeq(text, a, b - 1), next |-> b]

RECURSIVE Zeros(_)
Zeros(k) == IF k <= 0 THEN "" ELSE "0" \o Zeros(k - 1)

\* std::to_string(double) is printf("%f"): six decimals.  x = num/den with
\* den a power of ten of at most six digits after the point.
to_string_double(x) ==
  LET mag  == IF x.num < 0 THEN 0 - x.num ELSE x.num
      ip   == to_string(mag \div x.den)
      nfd  == Len(to_string(x.den)) - 1
      fr   == to_string(mag % x.den)
      frac == IF nfd = 0 THEN "" ELSE Zeros(nfd - Len(fr)) \o fr
  IN (IF x.num < 0 THEN "-" ELSE "") \o ip \o "." \o frac \o Zeros(6 - nfd)

Multiply(text) ==
  LET t1 == NextToken(text, 1)
      t2 == NextToken(text, t1.next)
      t3 == NextToken(text, t2.next)
      left_val  == stod(t1.tok)
      right_val == stod(t3.tok)
  IN IF left_val.ok /\ right_val.ok
     THEN to_string_double([num |-> left_val.num * right_val.num,
                            den |-> left_val.den * right_val.den])
     ELSE text

RECURSIVE MapChars(_, _)
MapChars(s, mode) ==
  IF Len(s) = 0 THEN ""
  ELSE (IF mode = "upper" THEN toupper(Ch(s, 1)) ELSE tolower(Ch(s, 1)))
         \o MapChars(From(s, 2), mode)

\* TITLE: all lower case, then the first character and every character that
\* follows a space are made upper case when alphabetic
RECURSIVE TitleFrom(_, _)
TitleFrom(value, i) ==
  IF i > Len(value) THEN ""
  ELSE (IF (i = 1 \/ Ch(value, i - 1) = " ") /\ isalpha(Ch(value, i))
        THEN toupper(Ch(value, i)) ELSE Ch(value, i)) \o TitleFrom(value, i + 1)

\* a variant that starts a word after every character that is not a letter
RECURSIVE TitleFromAnySeparator(_, _)
TitleFromAnySeparator(value, i) ==
  IF i > Len(value) THEN ""
  ELSE (IF (i = 1 \/ ~isalpha(Ch(value, i - 1))) /\ isalpha(Ch(value, i))
        THEN toupper(Ch(value, i)) ELSE Ch(value, i))
         \o TitleFromAnySeparator(value, i + 1)

TitleCaseAnySeparator(s) == TitleFromAnySeparator(MapChars(s, "lower"), 1)

TitleCase(s) == TitleFrom(MapChars(s, "lower"), 1)

\* start = find('(') + 1; end = find(')', start); substr(start, end - start)
FunctionArgument(text) ==
  LET start == Find(text, "(", 1) + 1
      end   == Find(text, ")", start)
  IN [found |-> end # 0,
      value |-> IF end = 0 \/ end = start THEN "" ELSE SubSeq(text, start, end - 1)]

\* a variant that tests for the functions before the operators
SimpleExpression_functions_first(text) ==
  IF StartsWithAt(text, 1, "UPPER(") /\ FunctionArgument(text).found
  THEN MapChars(FunctionArgument(text).value, "upper")
  ELSE IF StartsWithAt(text, 1, "LOWER(") /\ FunctionArgument(text).found
  THEN MapChars(FunctionArgument(text).value, "lower")
  ELSE IF StartsWithAt(text, 1, "TITLE(") /\ FunctionArgument(text).found
  THEN TitleCase(FunctionArgument(text).value)
  ELSE IF Find(text, " + ", 1) # 0 THEN Concatenate(text)
  ELSE IF Find(text, " * ", 1) # 0 THEN Multiply(text)
  ELSE text

SimpleExpression(text) ==
  IF Find(text, " + ", 1) # 0 THEN Concatenate(text)
  ELSE IF Find(text, " * ", 1) # 0 THEN Multiply(text)
  ELSE IF StartsWithAt(text, 1, "UPPER(")
  THEN (IF FunctionArgument(text).found
        THEN MapChars(FunctionArgument(text).value, "upper") ELSE text)
  ELSE IF StartsWithAt(text, 1, "LOWER(")
  THEN (IF FunctionArgument(text).found
        THEN MapChars(FunctionArgument(text).value, "lower") ELSE text)
  ELSE IF StartsWithAt(text, 1, "TITLE(")
  THEN (IF FunctionArgument(text).found
        THEN TitleCase(FunctionArgument(text).value) ELSE text)
  ELSE text

GeneralExpression(expression, input_row, input_headers) ==
  LET dq == ExtractLiterals([expr |-> expression, literals |-> <<>>], "\"")
      sq == ExtractLiterals(dq, "'")
      substituted == ReplaceFields(sq.expr, input_headers, input_row, sq.literals, 1)
  IN SimpleExpression(RestoreLiterals(substituted, sq.literals, 1))

\* a variant that evaluates the chosen branch as an expression of its own
apply_rule_evaluating_branch(rule, input_row, input_headers) ==
  LET expression == rule.condition
      m == field_ternary_regex(expression)
      field_index == IndexOf(input_headers, expression)
  IN IF m.matched
     THEN LET condition_result ==
                evaluate_simple_condition(Trim(m.condition_part), input_row, input_headers)
          IN GeneralExpression(IF condition_result THEN Trim(m.true_value)
                               ELSE Trim(m.false_value),
                               input_row, input_headers)
     ELSE IF field_index # 0 /\ field_index <= Len(input_row)
     THEN input_row[field_index]
     ELSE GeneralExpression(expression, input_row, input_headers)

apply_rule(rule, input_row, input_headers) ==
  LET expression == rule.condition
      m == field_ternary_regex(expression)
      field_index == IndexOf(input_headers, expression)
  IN IF m.matched
     THEN LET condition_result ==
                evaluate_simple_condition(Trim(m.condition_part), input_row, input_headers)
          IN RemoveQuotes(IF condition_result THEN Trim(m.true_value)
                          ELSE Trim(m.false_value))
     ELSE IF field_index # 0 /\ field_index <= Len(input_row)
     THEN input_row[field_index]
     ELSE GeneralExpression(expression, input_row, input_headers)

(***************************************************************************)
(* PsvTable, Database and QueryEngine::select.                             *)
(***************************************************************************)
\* PsvTable::build_header_index: header_index[headers[i]] = i for i ascending,
\* so a repeated header keeps its last position
build_header_index(headers) ==
  [h \in {headers[i] : i \in 1..Len(headers)} |->
     CHOOSE i \in 1..Len(headers) :
        headers[i] = h /\ \A j \in (i + 1)..Len(headers) : headers[j] # h]

\* a table as PsvParser::parse_file builds it
PsvTable(name, headers, records) ==
  [name |-> name, headers |-> headers, records |-> records,
   header_index |-> build_header_index(headers)]

\* a null std::unique_ptr<PsvTable>
NullTable == [null |-> TRUE]

\* a variant that keeps the table already held under the name
load_table_keeping_first(tables, table) ==
  IF table # NullTable /\ table.name # "" THEN tables @@ (table.name :> table) ELSE tables

\* Database::load_table: tables_[table->name] = std::move(table), when the
\* table is not null and its name is not empty
load_table(tables, table) ==
  IF table # NullTable /\ table.name # "" THEN (table.name :> table) @@ tables ELSE tables

\* Database::get_total_records: the sum of records.size() over the tables
RECURSIVE TotalRecords(_, _)
TotalRecords(tables, names) ==
  IF names = {} THEN 0
  ELSE LET n == CHOOSE x \in names : TRUE
       IN Len(tables[n].records) + TotalRecords(tables, names \ {n})

get_total_records(tables) == TotalRecords(tables, DOMAIN tables)

\* Database::get_table_names: the keys, sorted
RECURSIVE SortedNames(_)
SortedNames(S) ==
  IF S = {} THEN <<>>
  ELSE LET m == CHOOSE x \in S : \A y \in S : x = y \/ StrLess(x, y)
       IN <<m>> \o SortedNames(S \ {m})

get_table_names(tables) == SortedNames(DOMAIN tables)

\* QueryEngine::select(table_name) with no column list: every header, and
\* per record the field at the header's index or "" when the record is short
select(tables, table_name) ==
  LET table == tables[table_name]
  IN [headers |-> table.headers,
      rows |-> [r \in 1..Len(table.records) |->
                  [c \in 1..Len(table.headers) |->
                     LET idx == table.header_index[table.headers[c]]
                     IN IF idx <= Len(table.records[r]) THEN table.records[r][idx]
                        ELSE ""]]]

\* a null std::unique_ptr<QueryResult>
NullResult == [null |-> TRUE]

\* a variant that takes the record's fields by the position in the result
select_columns_by_position(tables, table_name, columns) ==
  IF table_name \notin DOMAIN tables THEN NullResult
  ELSE LET table == tables[table_name]
           headers == IF Len(columns) = 0 THEN table.headers ELSE columns
       IN [headers |-> headers,
           rows |-> [r \in 1..Len(table.records) |->
                       [c \in 1..Len(headers) |->
                          IF c <= Len(table.records[r]) THEN table.records[r][c] ELSE ""]]]

\* QueryEngine::select(table_name, columns): null when the table is not in
\* the database; the result headers are the columns asked for, or the
\* table's headers when none are; per record and result header the field at
\* header_index[header], or "" when the header is not in the index or the
\* record has no field there
select_columns(tables, table_name, columns) ==
  IF table_name \notin DOMAIN tables THEN NullResult
  ELSE LET table == tables[table_name]
           headers == IF Len(columns) = 0 THEN table.headers ELSE columns
       IN [headers |-> headers,
           rows |-> [r \in 1..Len(table.records) |->
                       [c \in 1..Len(headers) |->
                          IF /\ headers[c] \in DOMAIN table.header_index
                             /\ table.header_index[headers[c]] <= Len(table.records[r])
                          THEN table.records[r][table.header_index[headers[c]]]
                          ELSE ""]]]

(***************************************************************************)
(* TransformationEngine::parse_rule, load_rules, load_output_headers.      *)
(***************************************************************************)
\* while (std::getline(ss, part, delim)): the parts between delimiters; no
\* part is read after a trailing delimiter
RECURSIVE SplitOn(_, _)
SplitOn(text, delim) ==
  IF Len(text) = 0 THEN <<>>
  ELSE LET d == Find(text, delim, 1)
       IN IF d = 0 THEN <<text>>
          ELSE <<UpTo(text, d - 1)>> \o SplitOn(From(text, d + 1), delim)

TrimAll(parts) == [i \in 1..Len(parts) |-> Trim(parts[i])]

\* [ok |-> FALSE] stands for the std::runtime_error parse_rule throws
parse_rule(rule_text) ==
  LET parts == TrimAll(SplitOn(rule_text, "|"))
  IN IF Len(parts) < 3 THEN [ok |-> FALSE]
     ELSE IF parts[1] = "GLOBAL"
     THEN [ok |-> TRUE,
           rule |-> [type |-> "GLOBAL", target_field |-> "", condition |-> parts[2]]]
     ELSE IF parts[1] = "FIELD"
     THEN [ok |-> TRUE,
           rule |-> [type |-> "FIELD", target_field |-> parts[2], condition |-> parts[3]]]
     ELSE [ok |-> FALSE]

\* the body of load_rules' loop for one line: strip the comment, trim, parse
RuleOfLine(line) ==
  LET hash     == Find(line, "#", 1)
      stripped == IF hash = 0 THEN line ELSE UpTo(line, hash - 1)
      trimmed  == Trim(stripped)
  IN IF trimmed = "" THEN [ok |-> FALSE] ELSE parse_rule(trimmed)

RECURSIVE RulesOfLines(_)
RulesOfLines(lines) ==
  IF Len(lines) = 0 THEN <<>>
  ELSE LET r == RuleOfLine(lines[1])
       IN (IF r.ok THEN <<r.rule>> ELSE <<>>) \o RulesOfLines(Tail(lines))

\* load_output_headers on the file's first line
RECURSIVE NonEmpty(_)
NonEmpty(parts) ==
  IF Len(parts) = 0 THEN <<>>
  ELSE (IF parts[1] = "" THEN <<>> ELSE <<parts[1]>>) \o NonEmpty(Tail(parts))

HeadersOfLine(line) == NonEmpty(TrimAll(SplitOn(line, "|")))

(***************************************************************************)
(* TransformationEngine::transform_data.                                   *)
(***************************************************************************)
\* the scanning loop of source selection: does text hold header as a whole
\* word at or after pos
RECURSIVE found_reference(_, _, _)
found_reference(text, header, pos) ==
  LET p == Find(text, header, pos)
  IN IF p = 0 THEN FALSE
     ELSE IF IsWholeWord(text, p, header) THEN TRUE
     ELSE found_reference(text, header, p + Len(header))

\* a FIELD rule whose expression names one of the table's headers
RuleReferencesTable(rule, table) ==
  /\ rule.type = "FIELD"
  /\ \E i \in 1..Len(table.headers) : found_reference(rule.condition, table.headers[i], 1)

\* a variant that takes every FIELD rule for a reference to an input field
has_input_field_references_any_field_rule(tables, rules) ==
  \E r \in 1..Len(rules) : rules[r].type = "FIELD"

has_input_field_references(tables, rules) ==
  \E r \in 1..Len(rules) : \E n \in DOMAIN tables : RuleReferencesTable(rules[r], tables[n])

field_matches(table, rules) ==
  Cardinality({r \in 1..Len(rules) : RuleReferencesTable(rules[r], table)})

\* a variant that takes the table the most FIELD rules reference
SelectSource_most_matches(tables, rules) ==
  LET table_names == get_table_names(tables)
      matching == {k \in 1..Len(table_names) :
                      field_matches(tables[table_names[k]], rules) > 0}
  IN IF has_input_field_references(tables, rules)
     THEN (IF matching = {}
           THEN [found |-> FALSE, table |-> "", headers |-> <<>>, rows |-> <<>>]
           ELSE LET k == CHOOSE k \in matching : \A j \in matching :
                            \/ field_matches(tables[table_names[k]], rules)
                                  > field_matches(tables[table_names[j]], rules)
                            \/ /\ field_matches(tables[table_names[k]], rules)
                                    = field_matches(tables[table_names[j]], rules)
                               /\ k <= j
                IN [found   |-> TRUE,
                    table   |-> table_names[k],
                    headers |-> tables[table_names[k]].headers,
                    rows    |-> select(tables, table_names[k]).rows])
     ELSE [found |-> TRUE, table |-> "", headers |-> <<>>, rows |-> << <<>> >>]

\* the source: the first table, by name, with field_matches > 0; one empty
\* row when no FIELD rule references an input field
SelectSource(tables, rules) ==
  LET table_names == get_table_names(tables)
      matching == {k \in 1..Len(table_names) :
                      field_matches(tables[table_names[k]], rules) > 0}
  IN IF has_input_field_references(tables, rules)
     THEN (IF matching = {}
           THEN [found |-> FALSE, table |-> "", headers |-> <<>>, rows |-> <<>>]
           ELSE LET k == CHOOSE k \in matching : \A j \in matching : k <= j
                IN [found   |-> TRUE,
                    table   |-> table_names[k],
                    headers |-> tables[table_names[k]].headers,
                    rows    |-> select(tables, table_names[k]).rows])
     ELSE [found |-> TRUE, table |-> "", headers |-> <<>>, rows |-> << <<>> >>]

\* a variant that stops at the first GLOBAL rule, whatever it says
RECURSIVE passes_global_filters_first_rule(_, _, _, _)
passes_global_filters_first_rule(rules, row, source_headers, r) ==
  IF r > Len(rules) THEN TRUE
  ELSE IF rules[r].type = "GLOBAL"
  THEN evaluate_rule_condition(rules[r].condition, row, source_headers)
  ELSE passes_global_filters_first_rule(rules, row, source_headers, r + 1)

\* the GLOBAL loop with its break: the first failing rule rejects the row
RECURSIVE passes_global_filters(_, _, _, _)
passes_global_filters(rules, row, source_headers, r) ==
  IF r > Len(rules) THEN TRUE
  ELSE IF rules[r].type = "GLOBAL"
          /\ ~evaluate_rule_condition(rules[r].condition, row, source_headers)
  THEN FALSE
  ELSE passes_global_filters(rules, row, source_headers, r + 1)

RECURSIVE filtered_rows(_, _, _)
filtered_rows(rules, rows, source_headers) ==
  IF Len(rows) = 0 THEN <<>>
  ELSE (IF passes_global_filters(rules, rows[1], source_headers, 1)
        THEN <<rows[1]>> ELSE <<>>)
         \o filtered_rows(rules, Tail(rows), source_headers)

\* a variant in which the last FIELD rule for output_header wins
RECURSIVE LastFieldRule(_, _, _)
LastFieldRule(rules, output_header, r) ==
  IF r > Len(rules) THEN 0
  ELSE LET later == LastFieldRule(rules, output_header, r + 1)
       IN IF later # 0 THEN later
          ELSE IF rules[r].type = "FIELD" /\ rules[r].target_field = output_header THEN r
          ELSE 0

\* the index of the first FIELD rule whose target is output_header, 0 if none
RECURSIVE FirstFieldRule(_, _, _)
FirstFieldRule(rules, output_header, r) ==
  IF r > Len(rules) THEN 0
  ELSE IF rules[r].type = "FIELD" /\ rules[r].target_field = output_header THEN r
  ELSE FirstFieldRule(rules, output_header, r + 1)

\* a variant that lists every output header without a FIELD rule
RECURSIVE unmapped_fields_without_rule(_, _, _)
unmapped_fields_without_rule(rules, output_headers, source_headers) ==
  IF Len(output_headers) = 0 THEN <<>>
  ELSE (IF FirstFieldRule(rules, output_headers[1], 1) = 0
        THEN <<output_headers[1]>> ELSE <<>>)
         \o unmapped_fields_without_rule(rules, Tail(output_headers), source_headers)

RECURSIVE unmapped_fields(_, _, _)
unmapped_fields(rules, output_headers, source_headers) ==
  IF Len(output_headers) = 0 THEN <<>>
  ELSE LET has_rule == FirstFieldRule(rules, output_headers[1], 1) # 0
           has_direct_mapping == ~has_rule /\ IndexOf(source_headers, output_headers[1]) # 0
       IN (IF ~has_rule /\ ~has_direct_mapping THEN <<output_headers[1]>> ELSE <<>>)
            \o unmapped_fields(rules, Tail(output_headers), source_headers)

output_value(rules, output_header, input_row, source_headers) ==
  LET r     == FirstFieldRule(rules, output_header, 1)
      index == IndexOf(source_headers, output_header)
  IN IF r # 0 THEN apply_rule(rules[r], input_row, source_headers)
     ELSE IF index # 0 /\ index <= Len(input_row) THEN input_row[index]
     ELSE ""

output_row(rules, output_headers, input_row, source_headers) ==
  [c \in 1..Len(output_headers) |->
     output_value(rules, output_headers[c], input_row, source_headers)]

\* a variant without the early return for a database that holds no table
transform_data_without_table_check(tables, rules, output_headers) ==
  IF Len(output_headers) = 0
  THEN [null |-> TRUE, headers |-> <<>>, rows |-> <<>>, warned |-> <<>>]
  ELSE LET source == SelectSource(tables, rules)
       IN IF ~source.found
          THEN [null |-> FALSE, headers |-> output_headers, rows |-> <<>>,
                warned |-> <<>>]
          ELSE LET kept == filtered_rows(rules, source.rows, source.headers)
               IN [null    |-> FALSE,
                   headers |-> output_headers,
                   rows    |-> [k \in 1..Len(kept) |->
                                  output_row(rules, output_headers, kept[k],
                                             source.headers)],
                   warned  |-> unmapped_fields(rules, output_headers, source.headers)]

\* the returned QueryResult (null |-> TRUE for nullptr) and the fields the
\* warning on std::cerr lists (<<>> when no warning is written)
transform_data(tables, rules, output_headers) ==
  IF Len(output_headers) = 0
  THEN [null |-> TRUE, headers |-> <<>>, rows |-> <<>>, warned |-> <<>>]
  ELSE IF DOMAIN tables = {}
  THEN [null |-> FALSE, headers |-> output_headers, rows |-> <<>>, warned |-> <<>>]
  ELSE LET source == SelectSource(tables, rules)
       IN IF ~source.found
          THEN [null |-> FALSE, headers |-> output_headers, rows |-> <<>>,
                warned |-> <<>>]
          ELSE LET kept == filtered_rows(rules, source.rows, source.headers)
               IN [null    |-> FALSE,
                   headers |-> output_headers,
                   rows    |-> [k \in 1..Len(kept) |->
                                  output_row(rules, output_headers, kept[k],
                                             source.headers)],
                   warned  |-> unmapped_fields(rules, output_headers, source.headers)]

(***************************************************************************)
(* The engine before anything is loaded, and the value of ret / call when  *)
(* nothing has been called.                                                *)
(***************************************************************************)
NoTables == [n \in {} |-> {}]
Nothing == [op |-> "none"]
NoCall == [fn |-> "none"]

EngineInit ==
  /\ tables_ = NoTables
  /\ rules_ = <<>>
  /\ output_headers_ = <<>>
  /\ ret = Nothing

(***************************************************************************)
(* The inputs of the engine: PSV tables, rules files, output header files. *)
(***************************************************************************)
\* the most records a loaded table holds
MaxRecords == 2

EmployeeRecords == {<<"Ann", "85000">>, <<"Bob", "65000">>, <<"Abe">>}
DepartmentRecords == {<<"eng", "Cy">>}

SeqsUpTo(S, n) == UNION {[1..k -> S] : k \in 0..n}

\* departments sorts before employees; both have a column called name
LoadableTables ==
  {PsvTable("employees", <<"name", "salary">>, r) : r \in SeqsUpTo(EmployeeRecords, MaxRecords)}
    \cup {PsvTable("departments", <<"dept", "name">>, r) :
            r \in SeqsUpTo(DepartmentRecords, MaxRecords)}
    \cup {PsvTable("", <<"name">>, << <<"Eve">> >>)}

GlobalHigh    == "GLOBAL|salary >= '75000'|high earners"
GlobalNotBob  == "GLOBAL|name != 'Bob' ? ACCEPT : REJECT|everyone but Bob"
GlobalNotEng  == "GLOBAL|dept = 'eng' ? REJECT : ACCEPT|not engineering"
FieldUpper    == "FIELD|employee|UPPER(name)|upper case name"
FieldCopy     == "FIELD|employee|name|copy the name"
FieldAnnual   == "FIELD|pay|salary * 12|annual salary"
FieldStatic   == "FIELD|greeting|\"Hi\"|static text"
FieldUnit     == "FIELD|unit|dept|copy the department"
GlobalNoDescription == "GLOBAL|salary >= '75000'|"
FieldUnknown  == "FIELD|employee|LOWER(nickname)|no table has nickname"
FieldQuoted   == "FIELD|greeting|\"my name\"|a literal that holds a column name"

RuleFiles ==
  { <<>>,
    <<FieldStatic>>,
    <<FieldUpper>>,
    <<FieldUpper, FieldCopy>>,
    <<FieldCopy, FieldUpper, FieldStatic>>,
    <<GlobalHigh, FieldUpper>>,
    <<GlobalNotBob, GlobalHigh, FieldCopy>>,
    <<GlobalNotBob, FieldUpper, FieldAnnual>>,
    <<FieldUnit, FieldUpper>>,
    <<FieldAnnual>>,
    <<FieldUnknown>>,
    <<GlobalHigh, FieldStatic>>,
    <<FieldQuoted>>,
    <<"# rules", "BOGUS|x|y", FieldUpper, "FIELD|pay", "", GlobalNotEng>>,
    <<GlobalNotEng, FieldUnit, FieldStatic>>,
    <<GlobalNotBob>>,
    <<GlobalNoDescription, FieldCopy, "FIELD|pay|salary|# as it is">> }

HeaderFiles ==
  { <<>>,
    <<"">>,
    <<"greeting">>,
    <<"employee|pay">>,
    <<" employee | name |other">>,
    <<"unit|greeting|salary", "ignored|second|line">> }

(***************************************************************************)
(* The operations on the engine and its database.                          *)
(***************************************************************************)
Init ==
  /\ EngineInit
  /\ call = NoCall

LoadTable ==
  \E table \in LoadableTables :
     /\ tables_' = load_table(tables_, table)
     /\ ret' = Nothing
     /\ UNCHANGED <<rules_, output_headers_, call>>

Clear ==
  /\ tables_' = NoTables
  /\ ret' = Nothing
  /\ UNCHANGED <<rules_, output_headers_, call>>

\* load_rules on a file that opens: rules_.clear(), then one rule per line
\* that parses
load_rules(lines) == RulesOfLines(lines)

\* what each file of the model loads (computed once)
LoadedRules == [file \in RuleFiles |-> load_rules(file)]

LoadRules ==
  \E file \in RuleFiles :
     /\ rules_' = LoadedRules[file]
     /\ ret' = [op |-> "load_rules", file |-> file]
     /\ UNCHANGED <<tables_, output_headers_, call>>

\* load_output_headers on a file that opens: the headers are replaced only
\* when a first line can be read
load_output_headers(headers, lines) ==
  IF Len(lines) = 0 THEN headers ELSE HeadersOfLine(lines[1])

\* what each file of the model loads over each header list it can meet
\* (computed once)
LoadedHeaders ==
  [file \in HeaderFiles |->
     [old \in {<<>>} \cup {load_output_headers(<<>>, f) : f \in HeaderFiles} |->
        load_output_headers(old, file)]]

LoadOutputHeaders ==
  \E file \in HeaderFiles :
     /\ output_headers_' = LoadedHeaders[file][output_headers_]
     /\ ret' = [op |-> "load_output_headers", file |-> file]
     /\ UNCHANGED <<tables_, rules_, call>>

\* a variant that has cleared the rules before it finds the file missing
load_rules_clearing_before_open(rules) == <<>>

\* load_rules on a file that cannot be opened: the std::runtime_error is
\* thrown before rules_.clear()
load_rules_not_open(rules) == rules

LoadRulesThrows ==
  /\ rules_' = load_rules_not_open(rules_)
  /\ ret' = [op |-> "runtime_error", from |-> "load_rules"]
  /\ UNCHANGED <<tables_, output_headers_, call>>

\* load_output_headers on a file that cannot be opened: thrown before the
\* headers are touched
LoadOutputHeadersThrows ==
  /\ ret' = [op |-> "runtime_error", from |-> "load_output_headers"]
  /\ UNCHANGED <<tables_, rules_, output_headers_, call>>

\* a variant of the call that uses the rules up
TransformData_clearing_rules ==
  /\ ret' = [op |-> "transform_data"] @@ transform_data(tables_, rules_, output_headers_)
  /\ rules_' = <<>>
  /\ UNCHANGED <<tables_, output_headers_, call>>

TransformData ==
  /\ ret' = [op |-> "transform_data"] @@ transform_data(tables_, rules_, output_headers_)
  /\ UNCHANGED <<tables_, rules_, output_headers_, call>>

Next ==
  \/ LoadTable
  \/ Clear
  \/ LoadRules
  \/ LoadOutputHeaders
  \/ LoadRulesThrows
  \/ LoadOutputHeadersThrows
  \/ TransformData

Spec == Init /\ [][Next]_vars

(***************************************************************************)
(* Properties of transform_data.  ret holds the result of the last call    *)
(* while the engine is as the call found it: every other operation resets  *)
(* ret.                                                                    *)
(***************************************************************************)
TransformDone == ret.op = "transform_data"

GlobalRules == {r \in 1..Len(rules_) : rules_[r].type = "GLOBAL"}
FieldRules == {r \in 1..Len(rules_) : rules_[r].type = "FIELD"}

\* position p of text is outside it or holds no identifier character
WordBoundary(text, p) ==
  p < 1 \/ p > Len(text) \/ Ch(text, p) \notin WordChars

\* text holds column as a whole word
NamesColumn(text, column) ==
  \E p \in 1..(Len(text) - Len(column) + 1) :
     /\ SubSeq(text, p, p + Len(column) - 1) = column
     /\ WordBoundary(text, p - 1)
     /\ WordBoundary(text, p + Len(column))

Columns(table_name) ==
  {tables_[table_name].headers[i] : i \in 1..Len(tables_[table_name].headers)}

\* the tables a FIELD rule references
ReferencedTables ==
  {n \in DOMAIN tables_ :
     \E r \in FieldRules : \E c \in Columns(n) : NamesColumn(rules_[r].condition, c)}

Source == SelectSource(tables_, rules_)

KeptByEveryGlobalRule(row, headers) ==
  \A r \in GlobalRules : evaluate_rule_condition(rules_[r].condition, row, headers)

\* C3: the output rows are the projections, in the order of the source's
\* records, of exactly the source rows for which every GLOBAL rule is true
C3_RowsPassEveryGlobalRule ==
  (TransformDone /\ output_headers_ # <<>> /\ DOMAIN tables_ # {} /\ Source.found) =>
     LET survivors == SelectSeq(Source.rows,
                                LAMBDA row : KeptByEveryGlobalRule(row, Source.headers))
     IN ret.rows = [k \in 1..Len(survivors) |->
                      output_row(rules_, output_headers_, survivors[k], Source.headers)]

\* two GLOBAL rules; one row passes the first and fails the second, another
\* row is kept
C3_Witness ==
  /\ TransformDone
  /\ output_headers_ # <<>>
  /\ Cardinality(GlobalRules) >= 2
  /\ Len(ret.rows) >= 1
  /\ \E i \in 1..Len(Source.rows) :
        LET first == CHOOSE r \in GlobalRules : \A q \in GlobalRules : r <= q
        IN /\ evaluate_rule_condition(rules_[first].condition, Source.rows[i],
                                      Source.headers)
           /\ ~KeptByEveryGlobalRule(Source.rows[i], Source.headers)

Survivors == filtered_rows(rules_, Source.rows, Source.headers)

RulesFor(h) == {r \in FieldRules : rules_[r].target_field = h}

\* C4: the value under output header h is the first FIELD rule for h applied
\* to the row, else the source column called h, else the empty string
C4_FirstFieldRuleElseColumnElseEmpty ==
  (TransformDone /\ output_headers_ # <<>> /\ DOMAIN tables_ # {} /\ Source.found) =>
     /\ Len(ret.rows) = Len(Survivors)
     /\ \A k \in 1..Len(ret.rows) :
           /\ Len(ret.rows[k]) = Len(output_headers_)
           /\ \A c \in 1..Len(output_headers_) :
                 LET h == output_headers_[c]
                 IN ret.rows[k][c] =
                      IF RulesFor(h) # {}
                      THEN apply_rule(rules_[CHOOSE r \in RulesFor(h) :
                                                \A q \in RulesFor(h) : r <= q],
                                      Survivors[k], Source.headers)
                      ELSE IF \E i \in 1..Len(Source.headers) : Source.headers[i] = h
                      THEN Survivors[k][CHOOSE i \in 1..Len(Source.headers) :
                                           Source.headers[i] = h]
                      ELSE ""

\* a row whose headers show the three cases: two rules with different values
\* for one header, a header that is a source column, a header that is neither
C4_Witness ==
  /\ TransformDone
  /\ Len(ret.rows) >= 1
  /\ \E c \in 1..Len(output_headers_) :
        \E r, q \in RulesFor(output_headers_[c]) :
           /\ r < q
           /\ apply_rule(rules_[r], Survivors[1], Source.headers)
                # apply_rule(rules_[q], Survivors[1], Source.headers)
  /\ \E c \in 1..Len(output_headers_) :
        /\ RulesFor(output_headers_[c]) = {}
        /\ \E i \in 1..Len(Source.headers) : Source.headers[i] = output_headers_[c]
        /\ ret.rows[1][c] # ""
  /\ \E c \in 1..Len(output_headers_) :
        /\ RulesFor(output_headers_[c]) = {}
        /\ \A i \in 1..Len(Source.headers) : Source.headers[i] # output_headers_[c]

\* no GLOBAL rule, and no FIELD rule names a column of a loaded table
OnlyStaticRules ==
  /\ GlobalRules = {}
  /\ ReferencedTables = {}

\* the one row of the static source: every rule applied to an empty row
StaticRow == output_row(rules_, output_headers_, <<>>, <<>>)

FirstReferencedTable ==
  CHOOSE n \in ReferencedTables : \A m \in ReferencedTables : n = m \/ StrLess(n, m)

RuleFieldNames == {"name", "salary", "dept", "nickname"}

ReferencedNames == 
  {f \in RuleFieldNames : \E r \in FieldRules : NamesColumn(rules_[r].condition, f)}

\* the FIELD rules reference fields and no loaded table has one of them
MissingSource ==
  /\ ReferencedNames # {}
  /\ \A n \in DOMAIN tables_ : ReferencedNames \cap Columns(n) = {}

\* C9: with MissingSource the result has the output headers and zero rows
C9_MissingSourceYieldsZeroRows ==
  (TransformDone /\ output_headers_ # <<>> /\ MissingSource) =>
     /\ ~ret.null
     /\ ret.headers = output_headers_
     /\ ret.rows = <<>>

\* C10: without output headers the result is null; with output headers and
\* no table it has the output headers and zero rows, whatever the rules
C10_NullWithoutHeadersEmptyWithoutTables ==
  TransformDone =>
     /\ output_headers_ = <<>> => ret.null
     /\ (output_headers_ # <<>> /\ DOMAIN tables_ = {}) =>
           /\ ~ret.null
           /\ ret.headers = output_headers_
           /\ ret.rows = <<>>

\* no table, output headers, and a static rule that would give a row
C10_Witness ==
  /\ TransformDone
  /\ DOMAIN tables_ = {}
  /\ output_headers_ = <<"greeting">>
  /\ \E r \in FieldRules : rules_[r].target_field = "greeting"
  /\ ~ret.null
  /\ ret.rows = <<>>

\* an output header with no FIELD rule and no source column of its name
Unmapped(h) ==
  /\ RulesFor(h) = {}
  /\ \A i \in 1..Len(Source.headers) : Source.headers[i] # h

\* C11: when a source is selected, a warning is written exactly when some
\* output header is unmapped; it lists exactly the unmapped headers, and each
\* of them is empty in every output row
C11_WarningListsUnmappedHeaders ==
  (TransformDone /\ output_headers_ # <<>> /\ DOMAIN tables_ # {} /\ Source.found) =>
     /\ ret.warned = SelectSeq(output_headers_, Unmapped)
     /\ (ret.warned # <<>>) <=> (\E c \in 1..Len(output_headers_) : Unmapped(output_headers_[c]))
     /\ \A k \in 1..Len(ret.rows) : \A c \in 1..Len(output_headers_) :
           Unmapped(output_headers_[c]) => ret.rows[k][c] = ""

\* a row with a value from a rule, a value passed through from a column, and
\* one unmapped header, the only one the warning names
C11_Witness ==
  /\ TransformDone
  /\ output_headers_ = <<"employee", "name", "other">>
  /\ ret.warned = <<"other">>
  /\ Len(ret.rows) >= 1
  /\ ret.rows[1][1] # ""
  /\ ret.rows[1][2] # ""
  /\ ret.rows[1][3] = ""

LoadRulesDone == ret.op = "load_rules"

\* the fields of a line: the texts between its pipes, one more than it has
\* pipes
RECURSIVE PipeFields(_)
PipeFields(text) ==
  LET d == Find(text, "|", 1)
  IN IF d = 0 THEN <<text>>
     ELSE <<UpTo(text, d - 1)>> \o PipeFields(From(text, d + 1))

\* a line without its comment and the white space around it
RuleText(line) ==
  LET hash == Find(line, "#", 1)
  IN Trim(IF hash = 0 THEN line ELSE UpTo(line, hash - 1))

\* a line that is not blank, has 3 fields or more, and starts with a keyword
IsRuleLine(line) ==
  LET fields == PipeFields(RuleText(line))
  IN /\ RuleText(line) # ""
     /\ Len(fields) >= 3
     /\ Trim(fields[1]) \in {"GLOBAL", "FIELD"}

RuleOfFields(line) ==
  LET fields == PipeFields(RuleText(line))
  IN IF Trim(fields[1]) = "GLOBAL"
     THEN [type |-> "GLOBAL", target_field |-> "", condition |-> Trim(fields[2])]
     ELSE [type |-> "FIELD", target_field |-> Trim(fields[2]),
           condition |-> Trim(fields[3])]

\* C13: after load_rules the engine holds exactly the lines of the file that
\* have 3 pipe-delimited fields or more and start with GLOBAL or FIELD, in
\* file order, whatever was loaded before
C13_LoadRulesKeepsWellFormedLines ==
  LoadRulesDone =>
     LET kept == SelectSeq(ret.file, IsRuleLine)
     IN rules_ = [i \in 1..Len(kept) |-> RuleOfFields(kept[i])]

LoadOutputHeadersDone == ret.op = "load_output_headers"

\* the names on a line: its pipe-separated fields, trimmed, the empty ones
\* left out, in order
NamesOfLine(line) ==
  LET fields == PipeFields(line)
  IN SelectSeq([i \in 1..Len(fields) |-> Trim(fields[i])], LAMBDA n : n # "")

\* C20: after load_output_headers(f) the output headers are the names of the
\* first line of f, and the empty list when f is empty, whatever headers an
\* earlier load had left
C20_HeadersAreNamesOfFirstLine ==
  LoadOutputHeadersDone =>
     output_headers_ = (IF Len(ret.file) = 0 THEN <<>> ELSE NamesOfLine(ret.file[1]))

\* the loaded tables that have a column called h
TablesWithColumn(h) == {n \in DOMAIN tables_ : h \in Columns(n)}

\* C24: when no FIELD rule references an input column (GLOBAL rules only, or
\* no rules), an output header h without a FIELD rule that is a column of a
\* loaded table is passed through: one row per record of that table that
\* passes the GLOBAL rules, carrying the record's value of column h
C24_PassThroughWithoutFieldReferences ==
  (TransformDone /\ ReferencedTables = {}) =>
     \A c \in 1..Len(output_headers_) :
        LET h == output_headers_[c]
        IN (RulesFor(h) = {} /\ Cardinality(TablesWithColumn(h)) = 1) =>
              LET n == CHOOSE x \in TablesWithColumn(h) : TRUE
                  source == select(tables_, n)
                  kept == SelectSeq(source.rows,
                                    LAMBDA row : KeptByEveryGlobalRule(row, source.headers))
                  i == CHOOSE j \in 1..Len(source.headers) : source.headers[j] = h
              IN /\ Len(ret.rows) = Len(kept)
                 /\ \A k \in 1..Len(kept) : ret.rows[k][c] = kept[k][i]

\* a text in quotes: it opens and closes with the same quote character and
\* holds none in between
IsQuotedLiteral(text) ==
  /\ Len(text) >= 2
  /\ Ch(text, 1) \in {"\"", "'"}
  /\ Ch(text, Len(text)) = Ch(text, 1)
  /\ \A i \in 2..(Len(text) - 1) : Ch(text, i) # Ch(text, 1)

\* C28: a column name inside a quoted literal is no reference to the column:
\* when every FIELD rule is a quoted literal, there is no GLOBAL rule and a
\* table is loaded, the result is exactly one row, whatever the tables'
\* columns and records are
C28_QuotedLiteralRulesGiveOneRow ==
  (/\ TransformDone
   /\ output_headers_ # <<>>
   /\ DOMAIN tables_ # {}
   /\ GlobalRules = {}
   /\ FieldRules # {}
   /\ \A r \in FieldRules : IsQuotedLiteral(rules_[r].condition))
     => Len(ret.rows) = 1

Threw == ret.op = "runtime_error"

\* C30: a load_rules or load_output_headers that cannot open its file throws
\* and leaves the rules and the output headers as they were, so that a
\* transform_data that follows returns what it returned before the call
C30_FailedLoadChangesNothing ==
  [][Threw' =>
       /\ UNCHANGED <<rules_, output_headers_>>
       /\ TransformDone =>
             ret = [op |-> "transform_data"]
                     @@ transform_data(tables_', rules_', output_headers_')]_vars

\* rules and headers were loaded and rows produced, and the load_rules that
\* followed threw
C30_Witness ==
  /\ Threw
  /\ ret.from = "load_rules"
  /\ Len(rules_) >= 2
  /\ output_headers_ # <<>>
  /\ DOMAIN tables_ # {}

(***************************************************************************)
(* Calls of the condition evaluator: the inputs are drawn in the initial   *)
(* state, the evaluator is applied by the action.                          *)
(***************************************************************************)
\* the numbers up to MaxNum are among the field values
MaxNum == 11

NumStrings == {to_string(n) : n \in (MaxNum - 3)..MaxNum}

CondValues ==
  NumStrings \cup {"75000", "85000", "65000", "9.0", "12abc", "", "Abe",
                   "2023-01-15", "2023-07-01"}
CondLiterals == {"9", "10", "75000", "2023-06-01", "Abe"}
CondFieldNames == {"salary", "name", "missing"}
CondHeaders == <<"name", "salary">>
CondRows == {<<"Abe", v>> : v \in CondValues} \cup {<<"Abe">>, <<>>}

\* the ways a condition text is written around <field> <op> '<literal>'
CondForms == {"simple", "tight", "AR", "RA", "AA", "tightRA", "unquoted", "maybe"}

CondBase(f, o, l) == f \o " " \o o \o " '" \o l \o "'"

CondText(form, f, o, l) ==
  CASE form = "simple"   -> CondBase(f, o, l)
    [] form = "tight"    -> f \o o \o "'" \o l \o "'"
    [] form = "AR"       -> CondBase(f, o, l) \o " ? ACCEPT : REJECT"
    [] form = "RA"       -> CondBase(f, o, l) \o " ? REJECT : ACCEPT"
    [] form = "AA"       -> CondBase(f, o, l) \o " ? ACCEPT : ACCEPT"
    [] form = "tightRA"  -> CondBase(f, o, l) \o "?REJECT:ACCEPT"
    [] form = "unquoted" -> f \o " " \o o \o " " \o l
    [] form = "maybe"    -> CondBase(f, o, l) \o " ? ACCEPT : MAYBE"

CondCalls ==
  [fn : {"evaluate_simple_condition", "evaluate_rule_condition"},
   form : CondForms, field : CondFieldNames,
   cmp : {CondOps[k] : k \in 1..Len(CondOps)}, lit : CondLiterals,
   row : CondRows, done : {FALSE}, value : {FALSE}]

CallText(c) == CondText(c.form, c.field, c.cmp, c.lit)

InitCond ==
  /\ EngineInit
  /\ call \in {c \in CondCalls :
                 c.fn = "evaluate_simple_condition" => c.form \in {"simple", "tight", "unquoted"}}

EvalSimple ==
  /\ call.fn = "evaluate_simple_condition"
  /\ ~call.done
  /\ call' = [call EXCEPT !.done = TRUE,
                !.value = evaluate_simple_condition(CallText(call), call.row, CondHeaders)]
  /\ UNCHANGED <<tables_, rules_, output_headers_, ret>>

EvalRule ==
  /\ call.fn = "evaluate_rule_condition"
  /\ ~call.done
  /\ call' = [call EXCEPT !.done = TRUE,
                !.value = evaluate_rule_condition(CallText(call), call.row, CondHeaders)]
  /\ UNCHANGED <<tables_, rules_, output_headers_, ret>>

NextCond == EvalSimple \/ EvalRule

SpecCond == InitCond /\ [][NextCond]_vars


(***************************************************************************)
(* Claims about the condition evaluator (SpecCond).                        *)
(***************************************************************************)
\* what the call's text is built from, independently of the regex model
CallFieldIndex == IndexOf(CondHeaders, call.field)
CallFieldMissing == CallFieldIndex = 0 \/ CallFieldIndex > Len(call.row)
CallFieldValue == call.row[CallFieldIndex]

\* a plain base-10 number: an optional sign, digits, optionally a point and
\* digits, and nothing else
IsPlainNumber(s) ==
  LET b == IF Len(s) > 0 /\ Ch(s, 1) \in {"+", "-"} THEN 2 ELSE 1
      c == SkipWhile(s, b, DigitChars)
      d == IF c <= Len(s) /\ Ch(s, c) = "." THEN SkipWhile(s, c + 1, DigitChars) ELSE c
  IN /\ d = Len(s) + 1
     /\ \E i \in b..Len(s) : Ch(s, i) \in DigitChars

\* lexicographic order written out on positions
LexLess(a, b) ==
  \E k \in 0..Len(a) :
     /\ k <= Len(b)
     /\ \A i \in 1..k : Ch(a, i) = Ch(b, i)
     /\ \/ (k = Len(a) /\ k < Len(b))
        \/ (k < Len(a) /\ k < Len(b) /\ Ord(Ch(a, k + 1)) < Ord(Ch(b, k + 1)))

LexCompare(op, a, b) ==
  CASE op = "="  -> a = b
    [] op = "!=" -> a # b
    [] op = ">"  -> LexLess(b, a)
    [] op = "<"  -> LexLess(a, b)
    [] op = ">=" -> a = b \/ LexLess(b, a)
    [] op = "<=" -> a = b \/ LexLess(a, b)

SimpleCallDone ==
  /\ call.fn = "evaluate_simple_condition"
  /\ call.form \in {"simple", "tight"}
  /\ call.done
  /\ ~CallFieldMissing

\* C2 (as claimed): when the field value or the literal is not a base-10
\* number, <, >, <=, >= follow lexicographic string order and =, != exact
\* string equality.
C2_LexicographicUnlessBothNumbers ==
  (SimpleCallDone /\ ~(IsPlainNumber(CallFieldValue) /\ IsPlainNumber(call.lit)))
     => call.value = LexCompare(call.cmp, CallFieldValue, call.lit)

RuleCallDone == call.fn = "evaluate_rule_condition" /\ call.done

AnyCallDone ==
  call.fn \in {"evaluate_simple_condition", "evaluate_rule_condition"} /\ call.done

\* the outcome tokens of a ternary form, as written
FormTrueToken == IF call.form \in {"AR", "AA", "maybe"} THEN "ACCEPT" ELSE "REJECT"
FormFalseToken == IF call.form \in {"RA", "AA", "tightRA"} THEN "ACCEPT" ELSE "REJECT"
IsTernaryForm == call.form \in {"AR", "RA", "AA", "tightRA"}

\* C6 (as claimed): whatever the form of the condition text, the result is
\* false when the named field is not a header or the row has no value there.
C6_MissingFieldIsFalse ==
  (AnyCallDone /\ CallFieldMissing) => call.value = FALSE

\* C6 (amended): with the field missing the base comparison is false, so the
\* simple form is false and a ternary form yields its second outcome: false
\* for "? ACCEPT : REJECT", true when the second outcome is ACCEPT.
C6_MissingFieldSelectsSecondOutcome ==
  (AnyCallDone /\ CallFieldMissing) =>
     call.value = (IsTernaryForm /\ call.fn = "evaluate_rule_condition"
                     /\ FormFalseToken = "ACCEPT")

C6_Witness ==
  /\ RuleCallDone
  /\ CallFieldMissing
  /\ call.form = "RA"
  /\ call.value = TRUE

\* C7: a ternary GLOBAL condition keeps the row exactly when the outcome
\* selected by the base condition is ACCEPT; any other text is evaluated
\* with the simple comparison grammar.
C7_TernarySelectsOutcome ==
  RuleCallDone =>
     LET base == evaluate_simple_condition(
                    CondBase(call.field, call.cmp, call.lit), call.row, CondHeaders)
     IN IF IsTernaryForm
        THEN call.value = ((IF base THEN FormTrueToken ELSE FormFalseToken) = "ACCEPT")
        ELSE call.value = evaluate_simple_condition(CallText(call), call.row, CondHeaders)

C7_Witness ==
  /\ RuleCallDone
  /\ call.form = "RA"
  /\ call.field = "salary" /\ call.cmp = ">=" /\ call.lit = "75000"
  /\ call.row = <<"Abe", "85000">>
  /\ call.value = FALSE

\* C19: when neither the field value nor the literal is a plain number (ISO
\* dates, names), the comparison orders them as strings: >= holds exactly
\* when the value is lexicographically greater than or equal to the literal,
\* and = only for identical strings.
C19_NonNumbersCompareAsStrings ==
  (SimpleCallDone /\ ~IsPlainNumber(CallFieldValue) /\ ~IsPlainNumber(call.lit))
     => call.value = LexCompare(call.cmp, CallFieldValue, call.lit)

(***************************************************************************)
(* Calls of apply_rule: the expression is drawn in the initial state, the  *)
(* evaluator is applied by the action.                                     *)
(***************************************************************************)
\* the longest chain of operands joined by " + "
MaxOperands == 3

ApplyHeaders == <<"name", "first_name">>
ApplyRows == {<<"Ann", "Jo">>, <<"Bob", "Al">>}

Operands ==
  [kind : {"literal"}, text : {"Hello, ", "!", " ", "Hi", ", "}]
    \cup [kind : {"field"}, text : {"name", "first_name"}]

OperandChains ==
  UNION {[1..n -> Operands] : n \in 2..MaxOperands}

OperandText(o) == IF o.kind = "literal" THEN "\"" \o o.text \o "\"" ELSE o.text

RECURSIVE ChainText(_)
ChainText(chain) ==
  IF Len(chain) = 1 THEN OperandText(chain[1])
  ELSE OperandText(chain[1]) \o " + " \o ChainText(Tail(chain))

ApplyCalls ==
  [fn : {"apply_rule"}, chain : OperandChains, row : ApplyRows,
   done : {FALSE}, out : {""}]

InitApply ==
  /\ EngineInit
  /\ call \in ApplyCalls

ApplyRule ==
  /\ call.fn = "apply_rule"
  /\ ~call.done
  /\ call' = [call EXCEPT !.done = TRUE,
                !.out = apply_rule([type |-> "FIELD", target_field |-> "out",
                                    condition |-> ChainText(call.chain)],
                                   call.row, ApplyHeaders)]
  /\ UNCHANGED <<tables_, rules_, output_headers_, ret>>

NextApply == ApplyRule

SpecApply == InitApply /\ [][NextApply]_vars

\* what a chain denotes: the literals as written between the quotes and the
\* row's field values, in order
OperandValue(o, row) ==
  IF o.kind = "literal" THEN o.text ELSE row[IndexOf(ApplyHeaders, o.text)]

RECURSIVE ChainValue(_, _)
ChainValue(chain, row) ==
  IF Len(chain) = 0 THEN ""
  ELSE OperandValue(chain[1], row) \o ChainValue(Tail(chain), row)

\* C1 (as claimed): a chain of double-quoted literals and field names joined
\* by " + " evaluates to the literal contents exactly as written and the
\* field values, concatenated in order.
C1_ConcatenationKeepsLiterals ==
  (call.fn = "apply_rule" /\ call.done) => call.out = ChainValue(call.chain, call.row)

(***************************************************************************)
(* Calls of apply_rule on the other expression forms: if-else, functions,  *)
(* multiplication, field references.                                       *)
(***************************************************************************)
ExprHeaders == <<"name", "salary", "first_name">>
ExprRows == {<<"Ann", "85000", "mary ann">>, <<"Bob", "65000", "bob o'neil">>}

TernaryConds ==
  {"salary >= '75000'", "name = 'Bob'", "missing = '1'", "salary > 70000"}

\* the branches as written: quoted texts, bare words, a column name, and
\* texts that would be expressions of their own
TernaryBranches ==
  {"\"High\"", "'Low'", "Standard", "name", "\"name\"", "salary * 2",
   "UPPER(name)", "\"a\" + \"b\"", "\"it's\"", "'x\""}

TernaryCalls ==
  [fn : {"apply_rule"}, form : {"ternary"}, cond : TernaryConds,
   v1 : TernaryBranches, v2 : TernaryBranches, tight : BOOLEAN,
   row : ExprRows, done : {FALSE}, out : {""}]

\* the arguments of a function as written: quoted texts and column names
FunctionArguments ==
  [kind : {"literal"},
   text : {"bob o'neil", "MARY-ANN smith", "2nd floor", "anna  maria k", "x",
           "-ann lee"}]
    \cup [kind : {"field"}, text : {"name", "first_name"}]

TitleCalls ==
  [fn : {"apply_rule"}, form : {"title"}, arg : FunctionArguments,
   row : ExprRows, done : {FALSE}, out : {""}]

\* the operands of a multiplication as written: column names and texts
MultiplyOperands ==
  [kind : {"field"}, text : {"salary", "name"}]
    \cup [kind : {"text"}, text : {"12", "1.5", "-2", "x"}]

\* rows with a salary that is a number and with one that only starts as one
MultiplyRows == ExprRows \cup {<<"Cy", "12abc", "cy">>}

\* (products stay within the integers of the model: salary is not multiplied
\* by salary)
MultiplyCalls ==
  [fn : {"apply_rule"}, form : {"multiply"}, left : MultiplyOperands,
   right : {o \in MultiplyOperands : o.text # "salary"},
   row : MultiplyRows, done : {FALSE}, out : {""}]

\* the most words an expression of field references holds
MaxWords == 3

\* words of an expression: column names, longer identifiers that contain a
\* column name, and quoted literals that contain one
Words ==
  [kind : {"field"}, text : {"name", "first_name"}]
    \cup [kind : {"identifier"}, text : {"nickname", "name_2", "first_name2", "x"}]
    \cup [kind : {"double", "single"}, text : {"name", "my name is"}]

Separators == {" ", "-", ", "}

SubstitutionRows == {<<"Ann", "85000", "Jo">>}

SubstitutionCalls ==
  [fn : {"apply_rule"}, form : {"words"},
   words : UNION {[1..n -> Words] : n \in 1..MaxWords},
   sep : Separators, row : SubstitutionRows, done : {FALSE}, out : {""}]

WordText(w) ==
  CASE w.kind = "double" -> "\"" \o w.text \o "\""
    [] w.kind = "single" -> "'" \o w.text \o "'"
    [] OTHER -> w.text

RECURSIVE WordsText(_, _)
WordsText(words, sep) ==
  IF Len(words) = 1 THEN WordText(words[1])
  ELSE WordText(words[1]) \o sep \o WordsText(Tail(words), sep)

\* expressions as written in a rule: one operation, several at once, a
\* function that does not open the text, a literal that holds an operator
WrittenExpressions ==
  {"UPPER(name + \" \" + first_name)", "UPPER(name)", "LOWER(name)",
   "TITLE(first_name)", "salary * 2", "salary * 2 + 1", "UPPER(salary * 2)",
   "LOWER(UPPER(name))", "x UPPER(name)", "UPPER(\"a + b\")", "\"Hi\"", "nickname",
   "TITLE(name) + \"x\""}

\* rows whose values are plain, name another column, or hold an operator or
\* a parenthesis
WrittenRows ==
  {<<"Ann", "85000", "Jo">>, <<"Ann", "85000", "Al">>,
   <<"first_name", "85000", "x">>, <<"first_name", "85000", "y">>,
   <<"a + b", "2", "Jo">>, <<"2 * 3", "2", "Jo">>, <<"f(x) y", "2", "Jo">>}

WrittenCalls ==
  [fn : {"apply_rule"}, form : {"written"}, text : WrittenExpressions,
   row : WrittenRows, done : {FALSE}, out : {""}]

ExprCalls ==
  TernaryCalls \cup TitleCalls \cup MultiplyCalls \cup SubstitutionCalls \cup WrittenCalls

\* the expression text of a call
ExprText(c) ==
  CASE c.form = "ternary" ->
         IF c.tight THEN c.cond \o "?" \o c.v1 \o ":" \o c.v2
         ELSE c.cond \o " ? " \o c.v1 \o " : " \o c.v2
    [] c.form = "title" ->
         "TITLE(" \o (IF c.arg.kind = "literal" THEN "\"" \o c.arg.text \o "\""
                      ELSE c.arg.text) \o ")"
    [] c.form = "multiply" -> c.left.text \o " * " \o c.right.text
    [] c.form = "words" -> WordsText(c.words, c.sep)
    [] c.form = "written" -> c.text

InitExpr ==
  /\ EngineInit
  /\ call \in ExprCalls

EvalExpr ==
  /\ call.fn = "apply_rule"
  /\ ~call.done
  /\ call' = [call EXCEPT !.done = TRUE,
                !.out = apply_rule([type |-> "FIELD", target_field |-> "out",
                                    condition |-> ExprText(call)],
                                   call.row, ExprHeaders)]
  /\ UNCHANGED <<tables_, rules_, output_headers_, ret>>

NextExpr == EvalExpr

SpecExpr == InitExpr /\ [][NextExpr]_vars

ExprDone(form) == call.fn = "apply_rule" /\ call.done /\ call.form = form

\* a text without the quotes around it, when it starts and ends with the same
\* quote character
StripQuotes(v) ==
  IF /\ Len(v) >= 2
     /\ Ch(v, 1) = Ch(v, Len(v))
     /\ Ch(v, 1) \in {"\"", "'"}
  THEN SubSeq(v, 2, Len(v) - 1)
  ELSE v

ChosenBranch ==
  IF evaluate_simple_condition(call.cond, call.row, ExprHeaders)
  THEN call.v1 ELSE call.v2

C15_ColumnBranchYieldsRowValue ==
  (ExprDone("ternary") /\ IndexOf(ExprHeaders, ChosenBranch) # 0) =>
     call.out = call.row[IndexOf(ExprHeaders, ChosenBranch)]

\* the content a function is applied to: the text of a literal, the row's
\* value of a column
ArgumentContent ==
  IF call.arg.kind = "literal" THEN call.arg.text
  ELSE call.row[IndexOf(ExprHeaders, call.arg.text)]

\* x in lower case, but for the positions in ups, which are in upper case
RECURSIVE Recased(_, _, _)
Recased(x, ups, i) ==
  IF i > Len(x) THEN ""
  ELSE (IF i \in ups THEN toupper(Ch(x, i)) ELSE tolower(Ch(x, i)))
         \o Recased(x, ups, i + 1)

Letters(x) == {i \in 1..Len(x) : isalpha(Ch(x, i))}
AfterSpace(x) == {i \in Letters(x) : i > 1 /\ Ch(x, i - 1) = " "}
FirstLetter(x) == {i \in Letters(x) : \A j \in Letters(x) : i <= j}

OperandContent(o) ==
  IF o.kind = "field" THEN call.row[IndexOf(ExprHeaders, o.text)] ELSE o.text

\* C17: a multiplication returns the product when both operands are numbers,
\* and the text with its operands unevaluated when one of them is not
C17_ProductOnlyOfNumbers ==
  ExprDone("multiply") =>
     LET l == OperandContent(call.left)
         r == OperandContent(call.right)
     IN call.out =
          IF IsPlainNumber(l) /\ IsPlainNumber(r)
          THEN to_string_double([num |-> stod(l).num * stod(r).num,
                                 den |-> stod(l).den * stod(r).den])
          ELSE l \o " * " \o r

\* what a word stands for: the row's value of a column, the content of a
\* literal, an identifier as it is
WordValue(w, row) ==
  IF w.kind = "field" THEN row[IndexOf(ExprHeaders, w.text)] ELSE w.text

RECURSIVE WordsValue(_, _, _)
WordsValue(words, sep, row) ==
  IF Len(words) = 1 THEN WordValue(words[1], row)
  ELSE WordValue(words[1], row) \o sep \o WordsValue(Tail(words), sep, row)

\* C18: every column name that stands as a whole word outside the literals
\* is replaced by the row's value; a column name inside a longer identifier
\* or inside a literal is left as it is
C18_WholeWordsOutsideLiteralsAreSubstituted ==
  ExprDone("words") => call.out = WordsValue(call.words, call.sep, call.row)

\* a column name as a word, inside a longer identifier and inside a literal
C18_Witness ==
  /\ ExprDone("words")
  /\ call.words = <<[kind |-> "identifier", text |-> "name_2"],
                    [kind |-> "field", text |-> "name"],
                    [kind |-> "double", text |-> "my name is"]>>
  /\ call.sep = "-"
  /\ call.out = "name_2-Ann-my name is"


(***************************************************************************)
(* Calls on the Database and the QueryEngine over it: load_table and clear *)
(* in any order, each followed by get_table_names and get_total_records,   *)
(* and select.  call.log records the load_table and clear calls so far.    *)
(***************************************************************************)
\* the most calls made on the database
MaxCalls == 3

\* employees comes with 0..MaxRecords records, once with other headers and
\* once with a record shorter and a record longer than its headers;
\* accounts sorts before departments before employees
DbTables ==
  {PsvTable("employees", <<"name", "salary">>, [i \in 1..k |-> <<"Ann", "85000">>]) :
      k \in 0..MaxRecords}
    \cup {PsvTable("employees", <<"id", "name", "age">>, << <<"1", "John", "30">> >>),
          PsvTable("employees", <<"name", "salary">>,
                   << <<"Abe">>, <<"Bob", "65000", "eng">> >>),
          PsvTable("departments", <<"dept", "name">>, << <<"eng", "Cy">> >>),
          PsvTable("accounts", <<"id">>, << <<"1">>, <<"2">> >>),
          PsvTable("", <<"name">>, << <<"Eve">> >>),
          NullTable}

DbObserved(tables) ==
  [op |-> "database", names |-> get_table_names(tables), total |-> get_total_records(tables)]

InitDb ==
  /\ EngineInit
  /\ call = [fn |-> "database", log |-> <<>>]

DbLoadTable ==
  \E table \in DbTables :
     /\ Len(call.log) < MaxCalls
     /\ tables_' = load_table(tables_, table)
     /\ ret' = DbObserved(tables_')
     /\ call' = [call EXCEPT !.log = Append(@, [op |-> "load_table", table |-> table])]
     /\ UNCHANGED <<rules_, output_headers_>>

DbClear ==
  /\ Len(call.log) < MaxCalls
  /\ tables_' = NoTables
  /\ ret' = DbObserved(tables_')
  /\ call' = [call EXCEPT !.log = Append(@, [op |-> "clear"])]
  /\ UNCHANGED <<rules_, output_headers_>>

SelectedTables == {"employees", "departments", "nonexistent"}
SelectedColumns == {<<>>, <<"salary">>, <<"name", "nonexistent", "salary">>}

DbSelect ==
  \E table_name \in SelectedTables, columns \in SelectedColumns :
     /\ ret' = [op |-> "select", table_name |-> table_name, columns |-> columns,
                result |-> select_columns(tables_, table_name, columns)]
     /\ UNCHANGED <<tables_, rules_, output_headers_, call>>

NextDb == DbLoadTable \/ DbClear \/ DbSelect

SpecDb == InitDb /\ [][NextDb]_vars

\* the position of the last clear in the log, 0 when there is none
LastClear ==
  IF \E i \in 1..Len(call.log) : call.log[i].op = "clear"
  THEN CHOOSE i \in 1..Len(call.log) :
          call.log[i].op = "clear" /\ \A j \in (i + 1)..Len(call.log) : call.log[j].op # "clear"
  ELSE 0

\* the positions since the last clear where a table called n was loaded
LoadsOf(n) ==
  {i \in (LastClear + 1)..Len(call.log) :
      /\ call.log[i].op = "load_table"
      /\ call.log[i].table # NullTable
      /\ call.log[i].table.name = n}

DbNames == {"employees", "departments", "accounts"}

HeldNames == {n \in DbNames : LoadsOf(n) # {}}

LastLoaded(n) == call.log[CHOOSE i \in LoadsOf(n) : \A j \in LoadsOf(n) : j <= i].table

RECURSIVE SumOfRecords(_)
SumOfRecords(names) ==
  IF names = {} THEN 0
  ELSE LET n == CHOOSE x \in names : TRUE
       IN Len(LastLoaded(n).records) + SumOfRecords(names \ {n})

DbCallDone == call.fn = "database" /\ Len(call.log) > 0

\* C21: after any sequence of load_table and clear calls the database holds,
\* for each non-empty name, exactly the table loaded last under that name
\* since the last clear (null tables and tables without a name are ignored);
\* get_table_names lists those names ascending without duplicates and
\* get_total_records is the sum of their record counts
C21_DatabaseHoldsLastLoadedTables ==
  DbCallDone =>
     /\ DOMAIN tables_ = HeldNames
     /\ \A n \in HeldNames : tables_[n] = LastLoaded(n)
     /\ ret.op = "database" =>
           /\ {ret.names[i] : i \in 1..Len(ret.names)} = HeldNames
           /\ \A i, j \in 1..Len(ret.names) : i < j => LexLess(ret.names[i], ret.names[j])
           /\ ret.total = SumOfRecords(HeldNames)

\* employees replaced by a table with other headers, beside a second table
C21_Witness ==
  /\ DbCallDone
  /\ Len(call.log) = 3
  /\ LoadsOf("employees") = {1, 3}
  /\ call.log[1].table.headers = <<"name", "salary">>
  /\ Len(call.log[1].table.records) = 2
  /\ tables_["employees"].headers = <<"id", "name", "age">>
  /\ ret.names = <<"accounts", "employees">>
  /\ ret.total = 3


(***************************************************************************)
(* load_data_multithreaded: one std::async task per file parses it, the    *)
(* calling thread collects the futures and loads the tables.  call holds   *)
(* the files, how far the launching loop is, each task's position, the     *)
(* futures already collected and whether the caller is still in the call.  *)
(***************************************************************************)
\* the most files in the list
MaxFiles == 3

\* what parsing a file yields: a table named after the file's stem, or the
\* std::runtime_error of a headers file that cannot be opened
Throws == [throws |-> TRUE]

ParseOutcomes ==
  {PsvTable("employees", <<"name", "salary">>, << <<"Ann", "85000">> >>),
   PsvTable("employees", <<"name", "salary">>, << <<"Bob", "65000">>, <<"Abe">> >>),
   PsvTable("departments", <<"dept", "name">>, << <<"eng", "Cy">> >>),
   Throws}

\* a variant that takes whichever future is left, not the first
any_future(c) == (1..Len(c.files)) \ c.loaded

\* for (auto& future : futures): the first future not yet collected
next_future(c) ==
  LET rest == (1..Len(c.files)) \ c.loaded
  IN IF rest = {} THEN {} ELSE {CHOOSE i \in rest : \A j \in rest : i <= j}

InitLoad ==
  /\ EngineInit
  /\ \E files \in UNION {[1..k -> ParseOutcomes] : k \in 0..MaxFiles} :
        call = [fn |-> "load_data_multithreaded", files |-> files, launched |-> 0,
                task |-> [i \in 1..Len(files) |-> "created"], loaded |-> {},
                pc |-> "running"]

\* futures.push_back(std::async(std::launch::async, ...)) for the next file
Launch ==
  /\ call.fn = "load_data_multithreaded"
  /\ call.launched < Len(call.files)
  /\ call' = [call EXCEPT !.launched = @ + 1]
  /\ UNCHANGED <<tables_, rules_, output_headers_, ret>>

\* a launched task enters PsvParser::parse_file
TaskParse(i) ==
  /\ call.fn = "load_data_multithreaded"
  /\ i <= call.launched
  /\ call.task[i] = "created"
  /\ call' = [call EXCEPT !.task[i] = "parsing"]
  /\ UNCHANGED <<tables_, rules_, output_headers_, ret>>

\* the task returns its table (or its exception) to the future
TaskReturn(i) ==
  /\ call.fn = "load_data_multithreaded"
  /\ call.task[i] = "parsing"
  /\ call' = [call EXCEPT !.task[i] = "done"]
  /\ UNCHANGED <<tables_, rules_, output_headers_, ret>>

\* after the launching loop, future.get() on the next future, once its task
\* is done: the table is loaded, or the task's exception leaves
\* load_data_multithreaded
Collect ==
  /\ call.fn = "load_data_multithreaded"
  /\ call.pc = "running"
  /\ call.launched = Len(call.files)
  /\ \E i \in next_future(call) :
        /\ call.task[i] = "done"
        /\ IF call.files[i] = Throws
           THEN /\ call' = [call EXCEPT !.pc = "thrown"]
                /\ UNCHANGED tables_
           ELSE /\ call' = [call EXCEPT !.loaded = @ \cup {i}]
                /\ tables_' = load_table(tables_, call.files[i])
  /\ UNCHANGED <<rules_, output_headers_, ret>>

\* every future is collected: the total is reported and the function returns
Return ==
  /\ call.fn = "load_data_multithreaded"
  /\ call.pc = "running"
  /\ call.launched = Len(call.files)
  /\ next_future(call) = {}
  /\ call' = [call EXCEPT !.pc = "returned"]
  /\ ret' = [op |-> "load_data_multithreaded", total |-> get_total_records(tables_)]
  /\ UNCHANGED <<tables_, rules_, output_headers_>>

NextLoad ==
  \/ Launch
  \/ \E i \in 1..MaxFiles : i <= Len(call.files) /\ TaskParse(i)
  \/ \E i \in 1..MaxFiles : i <= Len(call.files) /\ TaskReturn(i)
  \/ Collect
  \/ Return

SpecLoad == InitLoad /\ [][NextLoad]_vars

Loading == call.fn = "load_data_multithreaded"

\* the files before the first one whose parse throws
FilesBeforeThrow ==
  {i \in 1..Len(call.files) : \A j \in 1..i : call.files[j] # Throws}

\* the files among S that yield a table called n
FilesNamed(S, n) == {i \in S : call.files[i] # Throws /\ call.files[i].name = n}

\* per name, the table of the last file of S that yields it
LastOfEachName(S) ==
  [n \in {call.files[i].name : i \in {j \in S : call.files[j] # Throws}} |->
     call.files[CHOOSE i \in FilesNamed(S, n) : \A j \in FilesNamed(S, n) : j <= i]]

\* C22: the tables are loaded by the collecting thread only, one at a time
\* in file-list order, so under every interleaving of the parse tasks the
\* database holds what loading the files in list order gives, and at the
\* end the table of the later file for a name that two files yield
C22_LoadsInFileOrderWhateverTheInterleaving ==
  Loading =>
     /\ \A i \in call.loaded : \A j \in 1..i : j \in call.loaded
     /\ tables_ = LastOfEachName(call.loaded)
     /\ call.pc \in {"returned", "thrown"} => tables_ = LastOfEachName(FilesBeforeThrow)

\* two files yield employees: both tables have been loaded in list order
\* while the third file's task is still parsing, and the second is held
C22_Witness ==
  /\ Loading
  /\ call.pc = "running"
  /\ Len(call.files) = 3
  /\ call.loaded = {1, 2}
  /\ call.task[3] = "parsing"
  /\ call.files[1].name = "employees" /\ call.files[2].name = "employees"
  /\ call.files[1] # call.files[2]
  /\ tables_["employees"] = call.files[2]

SelectDone == ret.op = "select"

\* the position of header h among the table's headers, 0 when it is none
ColumnOf(table, h) ==
  IF \E i \in 1..Len(table.headers) : table.headers[i] = h
  THEN CHOOSE i \in 1..Len(table.headers) : table.headers[i] = h
  ELSE 0

\* C23: select on an existing table returns one row per record, in record
\* order, with one value per result header: the record's field in that
\* header's column, or the empty string when the header is no column of the
\* table or the record is too short; fields beyond the headers are ignored.
\* For a table that does not exist it returns null.
C23_SelectGivesOneValuePerHeader ==
  SelectDone =>
     IF ret.table_name \notin DOMAIN tables_ THEN ret.result = NullResult
     ELSE LET table == tables_[ret.table_name]
              headers == IF ret.columns = <<>> THEN table.headers ELSE ret.columns
          IN /\ ret.result.headers = headers
             /\ Len(ret.result.rows) = Len(table.records)
             /\ \A r \in 1..Len(table.records) :
                   /\ Len(ret.result.rows[r]) = Len(headers)
                   /\ \A c \in 1..Len(headers) :
                         LET i == ColumnOf(table, headers[c])
                         IN ret.result.rows[r][c] =
                               IF i = 0 \/ i > Len(table.records[r]) THEN ""
                               ELSE table.records[r][i]

\* a short and a long record selected with a column the table does not have
C23_Witness ==
  /\ SelectDone
  /\ ret.columns = <<"name", "nonexistent", "salary">>
  /\ ret.result # NullResult
  /\ ret.result.rows = << <<"Abe", "", "">>, <<"Bob", "", "65000">> >>


\* the text of a written expression after field substitution and literal
\* restoration
SubstitutedText ==
  LET dq == ExtractLiterals([expr |-> call.text, literals |-> <<>>], "\"")
      sq == ExtractLiterals(dq, "'")
  IN RestoreLiterals(ReplaceFields(sq.expr, ExprHeaders, call.row, sq.literals, 1),
                     sq.literals, 1)

Holds(text, t) == \E i \in 1..(Len(text) - Len(t) + 1) : SubSeq(text, i, i + Len(t) - 1) = t

Begins(text, t) == Len(text) >= Len(t) /\ SubSeq(text, 1, Len(t)) = t

\* the text between the first "(" and the first ")" after it
Parenthesized(text) ==
  LET open == CHOOSE i \in 1..Len(text) :
                 Ch(text, i) = "(" /\ \A j \in 1..(i - 1) : Ch(text, j) # "("
      close == CHOOSE i \in (open + 1)..Len(text) :
                  Ch(text, i) = ")" /\ \A j \in (open + 1)..(i - 1) : Ch(text, j) # ")"
  IN SubSeq(text, open + 1, close - 1)

ReferencedFields(text) ==
  {i \in 1..Len(ExprHeaders) : NamesColumn(text, ExprHeaders[i])}

WrittenResult(text, row) ==
  apply_rule([type |-> "FIELD", target_field |-> "out", condition |-> text],
             row, ExprHeaders)

\* C26: the result depends only on the row's values of the fields that occur
\* in the expression text: a row that agrees with the call's row on every
\* referenced field gives the same result
C26_ResultDependsOnReferencedFieldsOnly ==
  ExprDone("written") =>
     \A row \in WrittenRows :
        (\A i \in ReferencedFields(call.text) : row[i] = call.row[i])
           => WrittenResult(call.text, row) = call.out

\* C27: which operation is applied and how far a function's argument reaches
\* is fixed by the expression text, not by the row: a function applied to a
\* column yields the re-cased complete value of the column, whatever the
\* value holds
C27_FunctionOfColumnRecasesWholeValue ==
  ExprDone("written") =>
     /\ call.text = "UPPER(name)" => call.out = MapChars(call.row[1], "upper")
     /\ call.text = "LOWER(name)" => call.out = MapChars(call.row[1], "lower")
     /\ call.text = "TITLE(first_name)" => call.out = TitleCase(call.row[3])


(***************************************************************************)
(* The whole-word scanning loops, one iteration per step: the scan of      *)
(* source selection in transform_data and the substitution of one header   *)
(* in apply_rule.  call holds the text, the header, the value put in for   *)
(* it, the position of the scan and the iterations made.                   *)
(***************************************************************************)
\* the most iterations of a loop that are followed
MaxIterations == 6

\* rule texts after the literals are set aside; headers, among them the
\* empty one that a headers line such as id||name yields; values, among them
\* the empty one and one that holds its own column name
ScanTexts == {"name", "nickname", "UPPER(name)", "name + name", "(name)", ""}
ScanHeaders == {"name", "a", ""}
ScanValues == {"Ann", "", "name x"}

InitScan ==
  /\ EngineInit
  /\ \E loop \in {"selection", "substitution"}, text \in ScanTexts,
        header \in ScanHeaders, value \in ScanValues :
        call = [fn |-> "scan", loop |-> loop, text |-> text, header |-> header,
                value |-> value, pos |-> 1, iter |-> 0, done |-> FALSE,
                found_reference |-> FALSE]

\* while ((pos = rule.condition.find(header, pos)) != npos): one iteration of
\* the scan of source selection
SelectionScanStep ==
  /\ call.fn = "scan" /\ call.loop = "selection"
  /\ ~call.done
  /\ call.iter < MaxIterations
  /\ LET p == Find(call.text, call.header, call.pos)
     IN call' = IF p = 0 THEN [call EXCEPT !.done = TRUE, !.iter = @ + 1]
                ELSE IF IsWholeWord(call.text, p, call.header)
                THEN [call EXCEPT !.done = TRUE, !.iter = @ + 1, !.pos = p,
                                  !.found_reference = TRUE]
                ELSE [call EXCEPT !.iter = @ + 1, !.pos = p + Len(call.header)]
  /\ UNCHANGED <<tables_, rules_, output_headers_, ret>>

\* while ((pos = result_expression.find(header, pos)) != npos): one iteration
\* of the substitution of a header
SubstitutionScanStep ==
  /\ call.fn = "scan" /\ call.loop = "substitution"
  /\ ~call.done
  /\ call.iter < MaxIterations
  /\ LET p == Find(call.text, call.header, call.pos)
     IN call' = IF p = 0 THEN [call EXCEPT !.done = TRUE, !.iter = @ + 1]
                ELSE IF IsWholeWord(call.text, p, call.header)
                THEN [call EXCEPT !.iter = @ + 1,
                        !.text = UpTo(call.text, p - 1) \o call.value
                                   \o From(call.text, p + Len(call.header)),
                        !.pos = p + Len(call.value)]
                ELSE [call EXCEPT !.iter = @ + 1, !.pos = p + Len(call.header)]
  /\ UNCHANGED <<tables_, rules_, output_headers_, ret>>

NextScan == SelectionScanStep \/ SubstitutionScanStep

SpecScan == InitScan /\ [][NextScan]_vars

\* what is left of the text from the scan's position on
LeftToScan(c) == Len(c.text) - c.pos

\* C29: the scanning loops of source selection and of field substitution
\* always advance, for every column name (an empty one, one the value holds)
\* and every value: an iteration that does not end the loop leaves less of
\* the text to scan, so the loops and with them transform_data terminate
C29_ScanningLoopsAdvance ==
  [][(call.fn = "scan" /\ call'.iter = call.iter + 1 /\ ~call'.done)
        => LeftToScan(call') < LeftToScan(call)]_vars

=============================================================================
